---- MODULE Spec2Model ----
(***************************************************************************)
(* A model of the multi-provider AI generation gateway of the backend:     *)
(* AIService and its singleton accessor (app/services/ai_service.py), the  *)
(* providers (app/services/ai_providers/*.py) with the retry loop of       *)
(* ClaudeProvider.generate, and the line-by-line stream relays of          *)
(* ClaudeProvider.generate_stream and OllamaProvider.generate_stream.      *)
(*                                                                         *)
(* The specifications of the module:                                       *)
(*   Spec           synchronous calls (generate, check_status)             *)
(*   SpecStream     streaming calls (generate_stream)                      *)
(*   SpecSingleton  concurrent callers of get_ai_service                   *)
(*   SpecSession    concurrent users of one ClaudeProvider's session       *)
(*   SpecChat       the response body of POST /api/stream_chat             *)
(*   SpecReport     the response body of /api/generate/academic_report     *)
(*   SpecPayload    the request bodies of generate and generate_stream     *)
(*   SpecContext    SessionService.update_context on one session           *)
(*   SpecParse      the parsing of the prompt of /api/stream_chat          *)
(***************************************************************************)
EXTENDS Integers, Sequences, FiniteSets, TLC

VARIABLES
    \* ---- process configuration ----
    claude_api_key,      \* Config.CLAUDE_API_KEY: "None", "" or a key
    json_error_is_request_exception,
                         \* whether Response.json() raises a subclass of
                         \* RequestException on a non-JSON body (requests >= 2.27)
                         \* or a plain ValueError (older requests)
    \* ---- one synchronous call ----
    pc,                  \* position of the call
    call,                \* the call being served
    api_key,             \* api_key of the provider instance serving the call
    attempt,             \* loop variable of ClaudeProvider.generate
    retry_delay,         \* local retry_delay of ClaudeProvider.generate
    self_max_retries,    \* ClaudeProvider.max_retries
    self_retry_delay,    \* ClaudeProvider.retry_delay
    transcript,          \* outcomes of the requests sent by the call, in order
    sleeps,              \* arguments of the time.sleep calls of the call, in order
    result,              \* how the call ended
    calls,               \* number of calls started
    \* ---- one streaming call ----
    stream_pc,           \* "idle", "created", "open", "done", "error" or "cancelled"
    stream_call,         \* the generate_stream call being served
    stream_sent,         \* requests sent by the call: payload and outcome
    wire,                \* lines read from response.iter_lines() so far
    emitted,             \* fragments yielded to the caller so far
    stream_end,          \* how the generator ended
    connection,          \* the response whose lines the call reads: "none",
                         \* "open" or "closed"
    \* ---- callers of get_ai_service ----
    ai_service,          \* global _ai_service: 0 for None, else an instance
    ollama_service,      \* global _ollama_service: 0 for None, else an instance
    instances,           \* AIService instances constructed: use_ollama of each
    th_pc,               \* position of each calling thread
    th_flag,             \* use_ollama argument of the thread's call
    th_new,              \* the instance the thread constructed in this call
    returned,            \* what get_ai_service returned to each thread, in order
    \* ---- threads using one ClaudeProvider instance ----
    self_session,        \* ClaudeProvider._session: 0 for None, else a session
    sessions,            \* requests.Session objects created: whether the
                         \* headers of each were set
    ss_pc,               \* position of each thread
    ss_op,               \* the method the thread is in
    ss_got,              \* what the session property returned to the thread
    posted,              \* requests each thread sent: method and session
    \* ---- one streaming request (/api/stream_chat or
    \*      /api/generate/academic_report) ----
    chat_pc,             \* "idle", "started", "streaming" or "finished"
    chat_req,            \* provider and system_prompt of the request
    events,              \* events of the response body so far
    report_chunk,        \* academic_report: the fragment being sent (chunk)
    report_i,            \* academic_report: where its next slice starts (i)
    \* ---- request bodies ----
    built,               \* the request bodies built last by generate and by
                         \* generate_stream of a provider
    \* ---- the context of one session (SessionService) ----
    context,             \* session['context']
    added,               \* all texts added to the session, concatenated
    max_chars,           \* the max_chars the callers of the session pass
    updates,             \* number of update_context calls
    \* ---- the prompt of one /api/stream_chat request ----
    parse_in,            \* the prompt received, and how it was composed
    parse_out            \* system_prompt, whether it is passed on, user_request

syncVars == <<claude_api_key, json_error_is_request_exception, pc, call, api_key,
              attempt, retry_delay, self_max_retries, self_retry_delay,
              transcript, sleeps, result, calls>>

streamVars == <<stream_pc, stream_call, stream_sent, wire, emitted, stream_end,
                connection>>

singletonVars == <<ai_service, ollama_service, instances, th_pc, th_flag, th_new,
                   returned>>

sessionVars == <<self_session, sessions, ss_pc, ss_op, ss_got, posted>>

chatVars == <<chat_pc, chat_req, events, report_chunk, report_i>>

payloadVars == <<built>>

contextVars == <<context, added, max_chars, updates>>

parseVars == <<parse_in, parse_out>>

otherVars == <<payloadVars, contextVars, parseVars>>

vars == <<syncVars, streamVars, singletonVars, sessionVars, chatVars, otherVars>>

----------------------------------------------------------------------------
(* Bounds of the model *)

\* number of calls in one behaviour
MaxCalls == 2
\* longest response text
MaxTextLen == 2
\* lines read from one streamed response
MaxLines == 3
\* calls of get_ai_service by one thread
MaxGets == 2
\* requests one thread sends through a ClaudeProvider
MaxPosts == 2
\* largest max_chars of a session
MaxChars == 3
\* update_context calls on one session
MaxUpdates == 3

(* Program constants *)

\* self.max_retries = 3
InitMaxRetries == 3
\* self.retry_delay = 2
InitRetryDelay == 2
\* the status generate and check_status test for success
HTTP_OK == 200
\* elif response.status_code == 429
HTTP_RATE_LIMIT == 429
\* elif response.status_code >= 500
HTTP_SERVER_ERROR == 500

----------------------------------------------------------------------------
(* Texts: sequences of characters; " " stands for any whitespace character *)

Chars == {" ", "a"}

Texts == UNION {[1..n -> Chars] : n \in 0..MaxTextLen}

RECURSIVE lstrip(_)
lstrip(s) == IF s # <<>> /\ Head(s) = " " THEN lstrip(Tail(s)) ELSE s

RECURSIVE rstrip(_)
rstrip(s) == IF s # <<>> /\ s[Len(s)] = " " THEN rstrip(SubSeq(s, 1, Len(s) - 1)) ELSE s

\* str.strip()
strip(s) == rstrip(lstrip(s))

----------------------------------------------------------------------------
(* The transport: what one HTTP request can come back with *)

\* values of an api_key: None, the empty string, a key
KeyValues == {"None", "", "key"}

\* Shapes of a response body.
\*   text         the well-formed body of the provider, carrying a text
\*   empty        no content bytes
\*   nonjson      bytes that are not JSON (an HTML error page)
\*   error_obj    {"error": {"message": m}}
\*   json_list    valid JSON that is not an object: []
\*   obj_missing  a JSON object without the expected field: {}
\*   empty_list   {"content": []}
ErrorShapes == {"empty", "nonjson", "error_obj", "json_list"}
BadOkShapes == {"nonjson", "obj_missing", "empty_list"}

NetFail == [kind |-> "netfail", status |-> 0, shape |-> "none", text |-> <<>>]

Http(s, sh, t) == [kind |-> "http", status |-> s, shape |-> sh, text |-> t]

\* Outcomes of one request. The body of a 429 or 5xx response is never read by
\* the code, so one body stands for all of them.
Outcomes ==
    {NetFail}
    \cup {Http(HTTP_OK, "text", t) : t \in Texts}
    \cup {Http(HTTP_OK, sh, <<>>) : sh \in BadOkShapes}
    \cup {Http(s, "empty", <<>>) : s \in {429, 500, 503}}
    \cup {Http(s, sh, <<>>) : s \in {401, 404}, sh \in ErrorShapes}

----------------------------------------------------------------------------
(* Results of a call *)

NoResult == [kind |-> "none", text |-> <<>>, status |-> "", err |-> "", code |-> 0]

Return(t) == [kind |-> "return", text |-> t, status |-> "", err |-> "", code |-> 0]

ReturnStatus(s) == [kind |-> "return", text |-> <<>>, status |-> s, err |-> "", code |-> 0]

\* raise: err names the exception and its message, code is the HTTP status the
\* message carries (0 when it carries none)
Raise(e, c) == [kind |-> "raise", text |-> <<>>, status |-> "", err |-> e, code |-> c]

\* via: "service" for a call through AIService, "direct" for a call on a provider
NoCall == [op |-> "none", via |-> "none", use_ollama |-> FALSE, provider |-> "",
           handler |-> "none"]

\* is_configured with the test for the empty string left out
is_configured_NoneOnly(key) == key # "None"

\* BaseAIProvider.is_configured
is_configured(key) == key # "None" /\ key # ""

----------------------------------------------------------------------------
(* AIService: the gateway (app/services/ai_service.py) *)

\* provider names callers pass: the two the gateway knows, the default of the
\* generation routes ("gemini") and one nobody registered
ProviderNames == {"claude", "ollama", "gemini", "unknown"}

\* AIService.__init__: which provider attribute the instance has
ServiceHasProvider(use_ollama, name) ==
    IF use_ollama THEN name = "ollama" ELSE name = "claude"

\* AIService.generate / generate_stream: the attribute the call is routed to
ServiceRoute(use_ollama, provider) ==
    IF use_ollama \/ provider = "ollama" THEN "ollama" ELSE "claude"

\* AIService.check_status: the attribute the probe is routed to
ServiceStatusRoute(use_ollama) == IF use_ollama THEN "ollama" ELSE "claude"

\* the api_key of the gateway's provider: ClaudeProvider gets Config.CLAUDE_API_KEY,
\* OllamaProvider.__init__ sets none
ServiceKey(handler) == IF handler = "claude" THEN claude_api_key ELSE "None"

StartCall(c, key, where) ==
    /\ pc \in {"idle", "done"}
    /\ calls < MaxCalls
    /\ calls' = calls + 1
    /\ call' = c
    /\ api_key' = key
    /\ pc' = where
    /\ attempt' = 0
    /\ retry_delay' = 0
    /\ transcript' = <<>>
    /\ sleeps' = <<>>
    /\ result' = NoResult
    /\ UNCHANGED <<claude_api_key, json_error_is_request_exception,
                   self_max_retries, self_retry_delay>>

FailCall(c, r) ==
    /\ pc \in {"idle", "done"}
    /\ calls < MaxCalls
    /\ calls' = calls + 1
    /\ call' = c
    /\ api_key' = "None"
    /\ pc' = "done"
    /\ attempt' = 0
    /\ retry_delay' = 0
    /\ transcript' = <<>>
    /\ sleeps' = <<>>
    /\ result' = r
    /\ UNCHANGED <<claude_api_key, json_error_is_request_exception,
                   self_max_retries, self_retry_delay>>

\* AIService.generate(prompt, provider) on the instance get_ai_service(use_ollama)
\* returned: self.<route>.generate(prompt); a missing attribute raises
\* AttributeError
ServiceGenerate(use_ollama, provider) ==
    LET h == ServiceRoute(use_ollama, provider)
        c == [op |-> "generate", via |-> "service", use_ollama |-> use_ollama,
              provider |-> provider, handler |-> h]
    IN  IF ServiceHasProvider(use_ollama, h)
        THEN StartCall(c, ServiceKey(h), h \o "_generate")
        ELSE FailCall([c EXCEPT !.handler = "none"], Raise("AttributeError", 0))

\* AIService.check_status()
ServiceCheckStatus(use_ollama) ==
    LET h == ServiceStatusRoute(use_ollama)
        c == [op |-> "check_status", via |-> "service", use_ollama |-> use_ollama,
              provider |-> "", handler |-> h]
    IN  IF ServiceHasProvider(use_ollama, h)
        THEN StartCall(c, ServiceKey(h), h \o "_check_status")
        ELSE FailCall([c EXCEPT !.handler = "none"], Raise("AttributeError", 0))

----------------------------------------------------------------------------
(* ClaudeProvider.generate (claude_provider.py 68-140) *)

\* lines 128-140: data = response.json(); data["content"][0]["text"].strip()
ClaudeParse(o) ==
    CASE o.shape = "text" -> Return(strip(o.text))
      [] o.shape \in {"nonjson", "empty"} -> Raise("JSONDecodeError", 0)
      [] o.shape \in {"obj_missing", "empty_list"} -> Raise("InvalidResponseFormat", 0)
      [] OTHER -> Raise("TypeError", 0)

\* the delay after a 429 with the doubling of line 106 left out
DelayAfterRateLimit_NoDoubling(d) == d

\* lines 104-106: the delay after a 429 doubles
DelayAfterRateLimit(d) == d * 2

\* lines 109-110: the delay after a 5xx is left as it is
DelayAfterServerError(d) == d

\* line 120: a network failure is retried while attempts remain
MayRetryNetworkError(a) == a < self_max_retries - 1

\* lines 70-86: the configuration check and the set-up of the retry loop
ClaudeGenerateEnter ==
    /\ pc = "claude_generate"
    /\ IF ~is_configured(api_key)
       THEN /\ result' = Raise("NotConfigured", 0)
            /\ pc' = "done"
            /\ UNCHANGED retry_delay
       ELSE /\ retry_delay' = self_retry_delay
            /\ pc' = "claude_loop"
            /\ UNCHANGED result
    /\ attempt' = 0
    /\ UNCHANGED <<claude_api_key, json_error_is_request_exception, call, api_key,
                   self_max_retries, self_retry_delay, transcript, sleeps, calls>>

\* the end of one iteration that did not leave the loop: the next iteration, or
\* the for-else of line 125 when range(self.max_retries) is used up
ClaudeLoopContinue ==
    /\ attempt' = attempt + 1
    /\ IF attempt + 1 < self_max_retries
       THEN pc' = "claude_loop" /\ UNCHANGED result
       ELSE pc' = "done" /\ result' = Raise("ServiceUnavailable", 0)

\* lines 118-123: except requests.exceptions.RequestException
ClaudeOnRequestException ==
    IF MayRetryNetworkError(attempt)
    THEN /\ sleeps' = Append(sleeps, retry_delay)
         /\ UNCHANGED retry_delay
         /\ ClaudeLoopContinue
    ELSE /\ result' = Raise("NetworkError", 0)
         /\ pc' = "done"
         /\ UNCHANGED <<sleeps, retry_delay, attempt>>

\* lines 112-116: any other status
\*   error_data = response.json() if response.content else {}
\*   error_msg = error_data.get('error', {}).get('message', response.text)
\*   raise Exception(f"API Error {status}: {error_msg}")
ClaudeOnOtherStatus(o) ==
    CASE o.shape \in {"empty", "error_obj", "obj_missing", "empty_list"} ->
            /\ result' = Raise("APIError", o.status)
            /\ pc' = "done"
            /\ UNCHANGED <<sleeps, retry_delay, attempt>>
      [] o.shape = "nonjson" /\ json_error_is_request_exception ->
            ClaudeOnRequestException
      [] o.shape = "nonjson" /\ ~json_error_is_request_exception ->
            /\ result' = Raise("JSONDecodeError", 0)
            /\ pc' = "done"
            /\ UNCHANGED <<sleeps, retry_delay, attempt>>
      [] OTHER ->
            /\ result' = Raise("AttributeError", 0)
            /\ pc' = "done"
            /\ UNCHANGED <<sleeps, retry_delay, attempt>>

\* a loop that doubles the attribute of the instance instead of its local copy
SelfRetryDelayAfter_Shared(d_self, d_local) == d_local

\* self.retry_delay after an iteration: line 86 copies it into the local
\* retry_delay, lines 105-106 sleep and double the local; the attribute is
\* assigned in __init__ only
SelfRetryDelayAfter(d_self, d_local) == d_self

\* lines 88-125: one iteration of the retry loop, and what follows the loop
\* when the iteration leaves it
ClaudeAttempt(o) ==
    /\ pc = "claude_loop"
    /\ attempt < self_max_retries
    /\ transcript' = Append(transcript, o)
    /\ CASE o.kind = "netfail" -> ClaudeOnRequestException
         [] o.kind = "http" /\ o.status = HTTP_OK ->
                /\ result' = ClaudeParse(o)
                /\ pc' = "done"
                /\ UNCHANGED <<sleeps, retry_delay, attempt>>
         [] o.kind = "http" /\ o.status = HTTP_RATE_LIMIT ->
                /\ sleeps' = Append(sleeps, retry_delay)
                /\ retry_delay' = DelayAfterRateLimit(retry_delay)
                /\ ClaudeLoopContinue
         [] o.kind = "http" /\ o.status # HTTP_OK /\ o.status # HTTP_RATE_LIMIT
              /\ o.status >= HTTP_SERVER_ERROR ->
                /\ sleeps' = Append(sleeps, retry_delay)
                /\ retry_delay' = DelayAfterServerError(retry_delay)
                /\ ClaudeLoopContinue
         [] OTHER -> ClaudeOnOtherStatus(o)
    /\ self_retry_delay' = SelfRetryDelayAfter(self_retry_delay, retry_delay')
    /\ UNCHANGED <<claude_api_key, json_error_is_request_exception, call, api_key,
                   self_max_retries, calls>>

----------------------------------------------------------------------------
(* Single-attempt handlers: what they do with the outcome of their one request *)

\* a handler that ended without sending a request, or after its one request
NoRequest(r) == [sent |-> FALSE, result |-> r]
OneRequest(r) == [sent |-> TRUE, result |-> r]

\* a handler that backs off after a retryable outcome of its request
Finish_WithBackoff(run, o) ==
    /\ transcript' = IF run.sent THEN Append(transcript, o) ELSE transcript
    /\ result' = run.result
    /\ pc' = "done"
    /\ sleeps' = IF run.sent /\ (o.kind = "netfail" \/ o.status >= 429)
                 THEN Append(sleeps, self_retry_delay)
                 ELSE sleeps
    /\ UNCHANGED <<claude_api_key, json_error_is_request_exception, call, api_key,
                   attempt, retry_delay, self_max_retries, self_retry_delay, calls>>

\* the end of a single-attempt handler: its request, if it sent one, and its
\* result are recorded; nothing is slept
Finish(run, o) ==
    /\ transcript' = IF run.sent THEN Append(transcript, o) ELSE transcript
    /\ result' = run.result
    /\ pc' = "done"
    /\ UNCHANGED <<claude_api_key, json_error_is_request_exception, call, api_key,
                   attempt, retry_delay, self_max_retries, self_retry_delay,
                   sleeps, calls>>

\* OllamaProvider.generate (ollama_provider.py 23-48): requests.post,
\* raise_for_status, result.get('response', ''); every exception is wrapped
OllamaGenerateRun(o) ==
    OneRequest(
        CASE o.kind = "netfail" -> Raise("OllamaGenerationFailed", 0)
          [] o.kind = "http" /\ o.status >= 400 -> Raise("OllamaGenerationFailed", o.status)
          [] o.kind = "http" /\ o.status < 400 /\ o.shape = "text" -> Return(o.text)
          [] o.kind = "http" /\ o.status < 400 /\ o.shape \in {"obj_missing", "empty_list"} ->
                Return(<<>>)
          [] OTHER -> Raise("OllamaGenerationFailed", 0))

OllamaGenerate(o) ==
    /\ pc = "ollama_generate"
    /\ Finish(OllamaGenerateRun(o), o)

\* ClaudeProvider.check_status (claude_provider.py 233-262)
ClaudeCheckStatusRun(key, o) ==
    IF ~is_configured(key)
    THEN NoRequest(ReturnStatus("not configured"))
    ELSE OneRequest(ReturnStatus(
            CASE o.kind = "netfail" -> "error"
              [] o.kind = "http" /\ o.status = HTTP_OK -> "ok"
              [] o.kind = "http" /\ o.status = HTTP_RATE_LIMIT -> "rate_limited"
              [] o.kind = "http" /\ o.status = 401 -> "invalid_key"
              [] OTHER -> "error"))

ClaudeCheckStatus(o) ==
    /\ pc = "claude_check_status"
    /\ Finish(ClaudeCheckStatusRun(api_key, o), o)

\* OllamaProvider.check_status (ollama_provider.py 85-98): always a GET of
\* /api/tags; the provider has no api_key to look at
OllamaCheckStatusRun(key, o) ==
    OneRequest(ReturnStatus(
        CASE o.kind = "netfail" -> "not configured"
          [] o.kind = "http" /\ o.status = HTTP_OK -> "ok"
          [] OTHER -> "error"))

OllamaCheckStatus(o) ==
    /\ pc = "ollama_check_status"
    /\ Finish(OllamaCheckStatusRun(api_key, o), o)

\* the response handling shared by OpenAIProvider.generate (openai_provider.py
\* 32-49) and ZhipuProvider.generate (zhipu_provider.py 70-87):
\*   200: data["choices"][0]["message"]["content"], else raise Exception(...)
\*   except requests.exceptions.RequestException: raise Exception("... Network Error")
ChatCompletionResponse(o) ==
    CASE o.kind = "netfail" -> Raise("NetworkError", 0)
      [] o.kind = "http" /\ o.status # HTTP_OK -> Raise("APIError", o.status)
      [] o.kind = "http" /\ o.status = HTTP_OK /\ o.shape = "text" -> Return(o.text)
      [] o.kind = "http" /\ o.status = HTTP_OK /\ o.shape \in {"nonjson", "empty"} ->
            IF json_error_is_request_exception
            THEN Raise("NetworkError", 0)
            ELSE Raise("JSONDecodeError", 0)
      [] OTHER -> Raise("KeyError", 0)

\* OpenAIProvider.generate (openai_provider.py 16-49)
OpenAIGenerateRun(key, o) ==
    IF ~is_configured(key)
    THEN NoRequest(Raise("NotConfigured", 0))
    ELSE OneRequest(ChatCompletionResponse(o))

\* ZhipuProvider._generate_token (zhipu_provider.py 21-27):
\* id, secret = self.api_key.split(".")
ZhipuKeyFormatOk(key) == key = "id.secret"

\* ZhipuProvider.generate (zhipu_provider.py 52-87)
ZhipuGenerateRun(key, o) ==
    IF ~is_configured(key)
    THEN NoRequest(Raise("NotConfigured", 0))
    ELSE IF ~ZhipuKeyFormatOk(key)
         THEN NoRequest(Raise("InvalidKeyFormat", 0))
         ELSE OneRequest(ChatCompletionResponse(o))

\* check_status of OpenAIProvider (openai_provider.py 51-60) and of ZhipuProvider
\* (zhipu_provider.py 89-98): "ok" when self.generate("Hi") returns
StatusByGenerate(key, run) ==
    IF ~is_configured(key)
    THEN NoRequest(ReturnStatus("not configured"))
    ELSE [sent |-> run.sent,
          result |-> ReturnStatus(IF run.result.kind = "return" THEN "ok" ELSE "error")]

OpenAICheckStatusRun(key, o) == StatusByGenerate(key, OpenAIGenerateRun(key, o))

ZhipuCheckStatusRun(key, o) == StatusByGenerate(key, ZhipuGenerateRun(key, o))

OpenAIGenerate(o) ==
    /\ pc = "openai_generate"
    /\ Finish(OpenAIGenerateRun(api_key, o), o)

OpenAICheckStatus(o) ==
    /\ pc = "openai_check_status"
    /\ Finish(OpenAICheckStatusRun(api_key, o), o)

ZhipuGenerate(o) ==
    /\ pc = "zhipu_generate"
    /\ Finish(ZhipuGenerateRun(api_key, o), o)

ZhipuCheckStatus(o) ==
    /\ pc = "zhipu_check_status"
    /\ Finish(ZhipuCheckStatusRun(api_key, o), o)

\* api_key values an OpenAIProvider or ZhipuProvider is constructed with
DirectKeys == KeyValues \cup {"id.secret"}

\* a call of generate or check_status on an OpenAIProvider or a ZhipuProvider
\* constructed with api_key key (the gateway holds neither)
ProviderCall(cls, op, key) ==
    StartCall([op |-> op, via |-> "direct", use_ollama |-> FALSE, provider |-> "",
               handler |-> cls],
              key, cls \o "_" \o op)

----------------------------------------------------------------------------
(* The parts of the state a specification leaves alone *)

NoStreamCall == [use_ollama |-> FALSE, provider |-> "", system_prompt |-> "None",
                 handler |-> "none"]

\* how the generator ended: how is "return" or "raise", err names the exception,
\* cause is what ended it: "dispatch", "config", "open" (the POST), "line" (the
\* loop body), "signal" (a completion line), "eof", "transport" or "cancel"
\* (the caller closed the generator)
NoStreamEnd == [how |-> "none", err |-> "", cause |-> "none"]

StreamRaise(e, c) == [how |-> "raise", err |-> e, cause |-> c]

StreamReturn(c) == [how |-> "return", err |-> "", cause |-> c]

StreamClosed == [how |-> "close", err |-> "", cause |-> "cancel"]

StreamIdle ==
    /\ stream_pc = "idle"
    /\ stream_call = NoStreamCall
    /\ stream_sent = <<>>
    /\ wire = <<>>
    /\ emitted = <<>>
    /\ stream_end = NoStreamEnd
    /\ connection = "none"

Threads == {"t1", "t2"}

SingletonIdle ==
    /\ ai_service = 0
    /\ ollama_service = 0
    /\ instances = <<>>
    /\ th_pc = [t \in Threads |-> "idle"]
    /\ th_flag = [t \in Threads |-> FALSE]
    /\ th_new = [t \in Threads |-> 0]
    /\ returned = [t \in Threads |-> <<>>]

SessionIdle ==
    /\ self_session = 0
    /\ sessions = <<>>
    /\ ss_pc = [t \in Threads |-> "idle"]
    /\ ss_op = [t \in Threads |-> "none"]
    /\ ss_got = [t \in Threads |-> 0]
    /\ posted = [t \in Threads |-> <<>>]

NoChatReq == [provider |-> "", system_prompt |-> "None"]

ChatIdle ==
    /\ chat_pc = "idle"
    /\ chat_req = NoChatReq
    /\ events = <<>>
    /\ report_chunk = <<>>
    /\ report_i = 0

\* no request body built yet
NoPayload == [provider |-> "none", prompt |-> "", body |-> ("none" :> ""),
              messages |-> <<>>]

PayloadIdle == built = [generate |-> NoPayload, stream |-> NoPayload]

\* get_session: a new session has the empty context
ContextEmpty ==
    /\ context = <<>>
    /\ added = <<>>
    /\ updates = 0

ContextIdle == ContextEmpty /\ max_chars = 0

NoParseIn == [form |-> FALSE, s |-> <<>>, u |-> <<>>, prompt |-> <<>>]

NoParseOut == [passed |-> FALSE, system_prompt |-> <<>>, user_request |-> <<>>]

ParseIdle ==
    /\ parse_in = NoParseIn
    /\ parse_out = NoParseOut

OtherIdle == PayloadIdle /\ ContextIdle /\ ParseIdle

SyncIdle ==
    /\ pc = "idle"
    /\ call = NoCall
    /\ api_key = "None"
    /\ attempt = 0
    /\ retry_delay = 0
    /\ self_max_retries = InitMaxRetries
    /\ self_retry_delay = InitRetryDelay
    /\ transcript = <<>>
    /\ sleeps = <<>>
    /\ result = NoResult
    /\ calls = 0

----------------------------------------------------------------------------
(* Spec: synchronous calls *)

\* the process configuration: Config.CLAUDE_API_KEY as the environment set it,
\* and the requests library as installed
ConfigInit ==
    /\ claude_api_key \in KeyValues
    /\ json_error_is_request_exception \in BOOLEAN

SyncInit == ConfigInit /\ SyncIdle

Init == SyncInit /\ StreamIdle /\ SingletonIdle /\ SessionIdle /\ ChatIdle /\ OtherIdle

SyncNext ==
    \/ \E u \in BOOLEAN, p \in ProviderNames : ServiceGenerate(u, p)
    \/ \E u \in BOOLEAN : ServiceCheckStatus(u)
    \/ \E cls \in {"openai", "zhipu"}, op \in {"generate", "check_status"},
          key \in DirectKeys : ProviderCall(cls, op, key)
    \/ ClaudeGenerateEnter
    \/ \E o \in Outcomes : ClaudeAttempt(o)
    \/ \E o \in Outcomes : OllamaGenerate(o)
    \/ \E o \in Outcomes : ClaudeCheckStatus(o)
    \/ \E o \in Outcomes : OllamaCheckStatus(o)
    \/ \E o \in Outcomes : OpenAIGenerate(o)
    \/ \E o \in Outcomes : OpenAICheckStatus(o)
    \/ \E o \in Outcomes : ZhipuGenerate(o)
    \/ \E o \in Outcomes : ZhipuCheckStatus(o)

Next == SyncNext /\ UNCHANGED <<streamVars, singletonVars, sessionVars, chatVars, otherVars>>

Spec == Init /\ [][Next]_vars

----------------------------------------------------------------------------
(* chat_endpoint (app/routes/chat_routes.py 12-62): the status of the answer
   to a request whose ai_service.generate call raised *)

\* `"429" in error_msg`, `"403" in error_msg`: the message of a provider error
\* carries the digits of an HTTP status exactly when the provider formatted the
\* status into it (code); no message of the providers contains "Quota"
MessageContains(r, digits) == r.code = digits

\* lines 51-62: 500 unless the message contains "429" (or "Quota"), or "403"
ChatErrorStatus(r) ==
    IF MessageContains(r, 429) THEN 429
    ELSE IF MessageContains(r, 403) THEN 403
    ELSE 500

----------------------------------------------------------------------------
(* Claims about synchronous calls, checked under Spec *)

IsClaudeGenerate == call.op = "generate" /\ call.handler = "claude"

IsRetryable(o) ==
    \/ o.kind = "netfail"
    \/ o.kind = "http" /\ (o.status = HTTP_RATE_LIMIT \/ o.status >= HTTP_SERVER_ERROR)

RateLimitedTwiceThenOk ==
    /\ IsClaudeGenerate
    /\ pc = "done"
    /\ Len(transcript) = 3
    /\ transcript[1].kind = "http" /\ transcript[1].status = HTTP_RATE_LIMIT
    /\ transcript[2].kind = "http" /\ transcript[2].status = HTTP_RATE_LIMIT
    /\ transcript[3].kind = "http" /\ transcript[3].status = HTTP_OK
    /\ transcript[3].shape = "text"

\* C1: a ClaudeProvider.generate call answered 429, 429 and then 200 with a
\* well-formed body returns the response text (up to surrounding whitespace),
\* having slept at least base_delay before the second attempt and at least
\* 2 * base_delay before the third.
C1_RetryThenSuccess ==
    RateLimitedTwiceThenOk =>
        /\ result.kind = "return"
        /\ strip(result.text) = strip(transcript[3].text)
        /\ Len(sleeps) = 2
        /\ sleeps[1] >= InitRetryDelay
        /\ sleeps[2] >= 2 * InitRetryDelay

C1_Witness ==
    /\ RateLimitedTwiceThenOk
    /\ result.kind = "return"
    /\ result.text # <<>>
    /\ sleeps = <<2, 4>>

\* C2: a synchronous generate call (Claude or Ollama) whose first response is a
\* 404 fails at once, whatever the body: one request, no sleep, no further
\* attempt.
C2_NotFoundFailsImmediately ==
    (/\ call.op = "generate"
     /\ call.handler \in {"claude", "ollama"}
     /\ Len(transcript) >= 1
     /\ transcript[1].kind = "http"
     /\ transcript[1].status = 404)
    => (/\ pc = "done"
        /\ result.kind = "raise"
        /\ Len(transcript) = 1
        /\ sleeps = <<>>)

\* C3: AIService.generate with a provider name that is not registered fails
\* with an unknown-provider error; no provider is invoked and no request is
\* sent.
C3_UnknownProviderRejected ==
    (/\ call.via = "service"
     /\ call.op = "generate"
     /\ call.provider \notin {"claude", "ollama"})
    => (/\ call.handler = "none"
        /\ transcript = <<>>
        /\ pc = "done"
        /\ result.kind = "raise"
        /\ result.err = "UnknownProvider")

CredentialAbsentProbeDone ==
    /\ call.op = "check_status"
    /\ ~(api_key # "None" /\ api_key # "")
    /\ pc = "done"

\* C8 as stated: check_status of every provider (Claude, Ollama, OpenAI, Zhipu)
\* on an instance without credential returns "not configured" and sends no
\* request.
C8_EveryProviderNotConfigured ==
    CredentialAbsentProbeDone =>
        (result.status = "not configured" /\ transcript = <<>>)

\* C8 as amended: check_status of the providers that take a credential (Claude,
\* OpenAI, Zhipu) returns "not configured" without a request when the
\* credential is None or empty; OllamaProvider, which takes none, always sends
\* its one GET and answers "not configured" exactly when that request raises.
C8_CredentialedNotConfigured ==
    /\ (CredentialAbsentProbeDone /\ call.handler \in {"claude", "openai", "zhipu"})
        => (result = ReturnStatus("not configured") /\ transcript = <<>>)
    /\ (call.op = "check_status" /\ call.handler = "ollama" /\ pc = "done")
        => (/\ Len(transcript) = 1
            /\ result.kind = "return"
            /\ (result.status = "not configured") <=> (transcript[1].kind = "netfail"))

C8_Witness ==
    /\ CredentialAbsentProbeDone
    /\ call.handler = "claude"
    /\ api_key = ""
    /\ result = ReturnStatus("not configured")
    /\ transcript = <<>>

\* C9: on every gateway instance (use_ollama True or False),
\* generate(prompt, provider='ollama') reaches the daemon, and when the daemon
\* answers 200 {"response": t} the call returns exactly t.
C9_OllamaByNameReturnsText ==
    (/\ call.via = "service"
     /\ call.op = "generate"
     /\ call.provider = "ollama"
     /\ pc = "done")
    => (/\ Len(transcript) = 1
        /\ (transcript[1].kind = "http" /\ transcript[1].status = HTTP_OK
            /\ transcript[1].shape = "text")
           => result = Return(transcript[1].text))

\* C10: one ClaudeProvider.generate call sends at most max_retries requests; an
\* attempt is followed by another only when it ended in 429, in a status >= 500
\* or in a network failure; any other error status ends the call with an
\* error.
C10_BoundedClassifiedRetry ==
    IsClaudeGenerate =>
        /\ Len(transcript) <= InitMaxRetries
        /\ \A i \in 1..Len(transcript) :
              \/ IsRetryable(transcript[i])
              \/ /\ i = Len(transcript)
                 /\ pc = "done"
                 /\ (transcript[i].status # HTTP_OK => result.kind = "raise")

\* C11: the synchronous generate of OllamaProvider, OpenAIProvider and
\* ZhipuProvider is retried like that of ClaudeProvider: a call whose first
\* request ended in 429, in a status >= 500 or in a network failure does not
\* end after that one request.
C11_EveryProviderRetries ==
    (/\ call.op = "generate"
     /\ call.handler \in {"ollama", "openai", "zhipu"}
     /\ pc = "done"
     /\ Len(transcript) >= 1
     /\ IsRetryable(transcript[1]))
    => Len(transcript) >= 2

RECURSIVE Pow2(_)
Pow2(n) == IF n = 0 THEN 1 ELSE 2 * Pow2(n - 1)

\* C12: in one ClaudeProvider.generate call the delay slept after the n-th
\* retryable failure (429, status >= 500, network failure) is
\* base_delay * 2^(n-1), with base_delay = 2.
C12_DelayDoublesAfterEveryFailure ==
    IsClaudeGenerate =>
        \A n \in 1..Len(sleeps) :
            (\A i \in 1..n : IsRetryable(transcript[i]))
                => sleeps[n] = InitRetryDelay * Pow2(n - 1)

\* the call used up its attempts, the last of them answered with status s
ExhaustedOn(s) ==
    /\ IsClaudeGenerate
    /\ pc = "done"
    /\ Len(transcript) = self_max_retries
    /\ \A i \in 1..Len(transcript) : IsRetryable(transcript[i])
    /\ transcript[Len(transcript)].kind = "http"
    /\ transcript[Len(transcript)].status = s

\* C13: a generate call that exhausts its attempts raises an error that
\* identifies the failure by its HTTP status: after exhaustion on 429 the
\* error carries 429 and the chat route answers 429; after exhaustion on a
\* status >= 500 the error carries that status.
C13_ExhaustionKeepsStatus ==
    \A s \in {429, 500, 503} :
        ExhaustedOn(s) =>
            /\ result.kind = "raise"
            /\ result.code = s
            /\ (s = HTTP_RATE_LIMIT => ChatErrorStatus(result) = 429)

\* C18: check_status of every provider (Claude, Ollama, OpenAI, Zhipu) sends at
\* most one request and sleeps no backoff delay, whatever the status or the
\* transport failure; once it has sent its request it is over.
C18_CheckStatusSingleAttempt ==
    call.op = "check_status" =>
        /\ Len(transcript) <= 1
        /\ sleeps = <<>>
        /\ attempt = 0
        /\ Len(transcript) = 1 => (pc = "done" /\ result.kind = "return")

C18_Witness ==
    /\ call.op = "check_status"
    /\ call.handler = "claude"
    /\ pc = "done"
    /\ Len(transcript) = 1
    /\ transcript[1].kind = "http"
    /\ transcript[1].status = HTTP_RATE_LIMIT
    /\ result = ReturnStatus("rate_limited")
    /\ sleeps = <<>>

\* the i-th response of the call is a 200 whose body has not the expected shape
MalformedOkAt(i) ==
    /\ i \in 1..Len(transcript)
    /\ transcript[i].kind = "http"
    /\ transcript[i].status = HTTP_OK
    /\ transcript[i].shape \in BadOkShapes

\* C21: a ClaudeProvider.generate call that receives 200 with a body of the
\* wrong shape (not JSON, no content list, an empty one) fails with the
\* provider's "Invalid response format" error; that response is the last of the
\* call and no delay follows it.
C21_MalformedOkIsInvalidResponse ==
    IsClaudeGenerate =>
        \A i \in 1..Len(transcript) :
            MalformedOkAt(i) =>
                /\ i = Len(transcript)
                /\ Len(sleeps) = i - 1
                /\ pc = "done"
                /\ result = Raise("InvalidResponseFormat", 0)

\* C23: retry state does not survive a call: whatever calls were made and
\* however they ended, the provider's retry_delay and max_retries are 2 and 3,
\* and every ClaudeProvider.generate call enters its loop at attempt 0 with the
\* base delay, so the first delay of every call is the base delay.
C23_RetryStateResetEachCall ==
    /\ self_retry_delay = InitRetryDelay
    /\ self_max_retries = InitMaxRetries
    /\ (pc = "claude_loop" /\ transcript = <<>>)
        => (attempt = 0 /\ retry_delay = InitRetryDelay)
    /\ (IsClaudeGenerate /\ Len(sleeps) >= 1) => sleeps[1] = InitRetryDelay

\* the second call of a behaviour, having backed off twice after rate limits
C23_Witness ==
    /\ calls = 2
    /\ IsClaudeGenerate
    /\ sleeps = <<2, 4>>
    /\ self_retry_delay = 2
    /\ self_max_retries = 3

\* C28: in one ClaudeProvider.generate call a delay is slept only between two
\* attempts: when the call is over it has slept at most one delay less than it
\* made attempts.
C28_NoDelayAfterLastAttempt ==
    (IsClaudeGenerate /\ pc = "done" /\ Len(transcript) >= 1)
        => Len(sleeps) <= Len(transcript) - 1

\* C25: on every AIService instance a generate call with provider "claude"
\* (the default) is handled by the Claude provider and one with provider
\* "ollama" by the Ollama provider; the provider object the call selects exists
\* on the instance.
C25_RoutedByProviderName ==
    (/\ call.via = "service"
     /\ call.op = "generate"
     /\ call.provider \in {"claude", "ollama"})
    => call.handler = call.provider

----------------------------------------------------------------------------
(* Streaming: AIService.generate_stream and the providers' generate_stream *)

\* values of the system_prompt argument: None, the empty string, a text
SystemPrompts == {"None", "", "sys"}

\* what a streaming POST comes back with: a network failure, an error status
\* with its body, or 200 with the body still to be read line by line
StreamOutcomes ==
    {NetFail}
    \cup {Http(HTTP_OK, "stream", <<>>)}
    \cup {Http(s, "empty", <<>>) : s \in {429, 500}}
    \cup {Http(404, sh, <<>>) : sh \in ErrorShapes}

Line(k, t, d) == [kind |-> k, text |-> t, done |-> d]

\* the text of one delta: empty, whitespace or a letter; longer texts arrive as
\* several deltas
DeltaTexts == {<<>>, <<" ">>, <<"a">>}

\* Lines of a Claude stream.
\*   empty            b''
\*   comment          a line that does not start with 'data: ' (event: ..., : ping)
\*   done_marker      data: [DONE]
\*   malformed        data: followed by bytes that are not JSON
\*   json_nondict     data: followed by JSON that is no object (5, [], null)
\*   no_type          data: {}
\*   other_event      data: {"type": "ping"}, message_start, content_block_stop, ...
\*   message_stop     data: {"type": "message_stop"}
\*   delta_nonobject  data: {"type": "content_block_delta", "delta": "x"}
\*   text_delta       data: {"type": "content_block_delta",
\*                           "delta": {"type": "text_delta", "text": t}}
ClaudeLines ==
    {Line(k, <<>>, FALSE) : k \in {"empty", "comment", "done_marker", "malformed",
                                   "json_nondict", "no_type", "other_event",
                                   "message_stop", "delta_nonobject"}}
    \cup {Line("text_delta", t, FALSE) : t \in DeltaTexts}

\* Lines of an Ollama stream.
\*   empty            b''
\*   malformed        bytes that are not JSON
\*   json_nondict     JSON that is no container (5)
\*   obj_no_response  a JSON object without 'response'
\*   response         {"response": t, "done": d}
OllamaLines ==
    {Line(k, <<>>, FALSE) : k \in {"empty", "malformed", "json_nondict"}}
    \cup {Line("obj_no_response", <<>>, d) : d \in BOOLEAN}
    \cup {Line("response", t, d) : t \in DeltaTexts, d \in BOOLEAN}

\* the body of the for loop of ClaudeProvider.generate_stream on one line
\* (claude_provider.py 183-222): "skip", "emit", "break" or "raise"
ClaudeLineStep(l) ==
    CASE l.kind \in {"empty", "comment", "malformed", "no_type", "other_event"} -> "skip"
      [] l.kind \in {"done_marker", "message_stop"} -> "break"
      [] l.kind \in {"json_nondict", "delta_nonobject"} -> "raise"
      [] l.kind = "text_delta" -> IF l.text # <<>> THEN "emit" ELSE "skip"
      [] OTHER -> "skip"

\* the body of the for loop of OllamaProvider.generate_stream on one line
\* (ollama_provider.py 76-81)
OllamaLineStep(l) ==
    CASE l.kind \in {"empty", "obj_no_response"} -> "skip"
      [] l.kind \in {"malformed", "json_nondict"} -> "raise"
      [] l.kind = "response" -> "emit"
      [] OTHER -> "skip"

LineStep(handler, l) ==
    IF handler = "claude" THEN ClaudeLineStep(l) ELSE OllamaLineStep(l)

\* the exception a line raises: ClaudeProvider lets the AttributeError of
\* chunk_data.get / delta.get through (it catches RequestException only),
\* OllamaProvider wraps every exception
LineError(handler) ==
    IF handler = "claude" THEN "AttributeError" ELSE "OllamaStreamingFailed"

\* the exception a transport failure raises
TransportError(handler) ==
    IF handler = "claude" THEN "ClaudeStreamingError" ELSE "OllamaStreamingFailed"

\* a payload that carries the built-in default whatever the caller passed
ClaudeSystemSent_AlwaysDefault(system_prompt) == "EXPERT_SYSTEM_PROMPT"

\* the "system" entry of the request body: claude_provider.py 162,
\* ollama_provider.py 69-70
ClaudeSystemSent(system_prompt) ==
    IF system_prompt # "None" /\ system_prompt # "" THEN system_prompt ELSE "EXPERT_SYSTEM_PROMPT"

OllamaSystemSent(system_prompt) ==
    IF system_prompt # "None" /\ system_prompt # "" THEN system_prompt ELSE "absent"

\* the stream actions leave the state of the route to the specification that
\* uses them
StreamUnchanged ==
    UNCHANGED <<syncVars, singletonVars, sessionVars, otherVars>>

\* AIService.generate_stream(prompt, provider, system_prompt): returns the
\* generator of the routed provider; nothing of its body has run yet
ServiceGenerateStream(use_ollama, provider, system_prompt) ==
    LET h == ServiceRoute(use_ollama, provider)
        c == [use_ollama |-> use_ollama, provider |-> provider,
              system_prompt |-> system_prompt, handler |-> h]
    IN  /\ stream_pc = "idle"
        /\ stream_sent' = <<>>
        /\ wire' = <<>>
        /\ emitted' = <<>>
        /\ connection' = "none"
        /\ IF ServiceHasProvider(use_ollama, h)
           THEN /\ stream_call' = c
                /\ stream_pc' = "created"
                /\ stream_end' = NoStreamEnd
           ELSE /\ stream_call' = [c EXCEPT !.handler = "none"]
                /\ stream_pc' = "error"
                /\ stream_end' = StreamRaise("AttributeError", "dispatch")
        /\ StreamUnchanged

\* the response of a POST that led into the for loop is the one whose lines
\* are read; a response the generator raised on is not followed further
ConnectionAfterOpen(end) == IF end.how = "raise" THEN "none" ELSE "open"

\* What becomes of a response that was not read to its end when the frame of
\* the generator is dropped (break, an exception of the loop body, the
\* GeneratorExit of close()). Neither generate_stream calls response.close() or
\* holds the response in a with statement, so the connection is closed only
\* when the interpreter finalizes the response object: at once where objects
\* are reference-counted and nothing else refers to it, at some later
\* collection otherwise.
DroppedResponse == {"closed", "open"}

\* a generator that sends its request again when the first one failed
StreamAfterOpen_Retry(end) == IF end.how = "raise" THEN "created" ELSE "open"

\* where the generator is after its POST: an exception leaves it for good
\* (claude_provider.py 177-180 and 229-231, ollama_provider.py 82-83: the
\* handlers raise, nothing loops back to the POST), otherwise the for loop starts
StreamAfterOpen(end) == IF end.how = "raise" THEN "error" ELSE "open"

\* ClaudeProvider.generate_stream up to the for loop (claude_provider.py
\* 150-180), run by the first next() of the caller
ClaudeStreamOpenEnd(o) ==
    CASE o.kind = "netfail" -> StreamRaise("ClaudeStreamingError", "open")
      [] o.kind = "http" /\ o.status = HTTP_OK -> NoStreamEnd
      [] o.kind = "http" /\ o.status # HTTP_OK /\ o.shape \in {"empty", "error_obj"} ->
            StreamRaise("ClaudeAPIError", "open")
      [] o.kind = "http" /\ o.status # HTTP_OK /\ o.shape = "nonjson" ->
            IF json_error_is_request_exception
            THEN StreamRaise("ClaudeStreamingError", "open")
            ELSE StreamRaise("JSONDecodeError", "open")
      [] OTHER -> StreamRaise("AttributeError", "open")

ClaudeStreamOpen(o) ==
    /\ stream_pc = "created"
    /\ stream_call.handler = "claude"
    /\ IF ~is_configured(claude_api_key)
       THEN /\ stream_end' = StreamRaise("NotConfigured", "config")
            /\ stream_pc' = "error"
            /\ UNCHANGED <<stream_sent, connection>>
       ELSE /\ stream_sent' = Append(stream_sent,
                [system |-> ClaudeSystemSent(stream_call.system_prompt), outcome |-> o])
            /\ stream_end' = ClaudeStreamOpenEnd(o)
            /\ stream_pc' = StreamAfterOpen(ClaudeStreamOpenEnd(o))
            /\ connection' = ConnectionAfterOpen(ClaudeStreamOpenEnd(o))
    /\ UNCHANGED <<stream_call, wire, emitted>>
    /\ StreamUnchanged

\* OllamaProvider.generate_stream up to the for loop (ollama_provider.py
\* 61-74): requests.post, raise_for_status; every exception is wrapped
OllamaStreamOpenEnd(o) ==
    IF o.kind = "http" /\ o.status < 400
    THEN NoStreamEnd
    ELSE StreamRaise("OllamaStreamingFailed", "open")

OllamaStreamOpen(o) ==
    /\ stream_pc = "created"
    /\ stream_call.handler = "ollama"
    /\ stream_sent' = Append(stream_sent,
            [system |-> OllamaSystemSent(stream_call.system_prompt), outcome |-> o])
    /\ stream_end' = OllamaStreamOpenEnd(o)
    /\ stream_pc' = StreamAfterOpen(OllamaStreamOpenEnd(o))
    /\ connection' = ConnectionAfterOpen(OllamaStreamOpenEnd(o))
    /\ UNCHANGED <<stream_call, wire, emitted>>
    /\ StreamUnchanged

\* a relay that puts the new fragment in front of the earlier ones
EmitStep_Prepend(step, sofar, l) == IF step = "emit" THEN <<l.text>> \o sofar ELSE sofar

\* the fragments yielded so far after the step on line l
EmitStep(step, sofar, l) == IF step = "emit" THEN Append(sofar, l.text) ELSE sofar

\* one iteration of `for line in response.iter_lines()`: the transport delivers
\* line l and the loop body runs on it, up to its yield, break, raise or the
\* end of the body
StreamLineRead(l) ==
    /\ stream_pc = "open"
    /\ Len(wire) < MaxLines
    /\ wire' = Append(wire, l)
    /\ LET step == LineStep(stream_call.handler, l)
       IN  /\ emitted' = EmitStep(step, emitted, l)
           /\ stream_pc' = CASE step = "break" -> "done"
                             [] step = "raise" -> "error"
                             [] OTHER -> "open"
           /\ stream_end' = CASE step = "break" -> StreamReturn("signal")
                              [] step = "raise" ->
                                    StreamRaise(LineError(stream_call.handler), "line")
                              [] OTHER -> stream_end
           /\ IF step \in {"break", "raise"}
              THEN connection' \in DroppedResponse
              ELSE UNCHANGED connection
    /\ UNCHANGED <<stream_call, stream_sent>>
    /\ StreamUnchanged

\* the lines a provider's stream is made of
StreamLine(l) ==
    /\ l \in (IF stream_call.handler = "claude" THEN ClaudeLines ELSE OllamaLines)
    /\ StreamLineRead(l)

\* iter_lines() is exhausted because the body is over (the server finished it
\* or closed the connection cleanly): the for loop ends and the generator
\* returns, whether or not a completion line was read; the transport lets go
\* of a connection whose body was read to its end
StreamEndOfBody ==
    /\ stream_pc = "open"
    /\ stream_pc' = "done"
    /\ stream_end' = StreamReturn("eof")
    /\ connection' = "closed"
    /\ UNCHANGED <<stream_call, stream_sent, wire, emitted>>
    /\ StreamUnchanged

\* iter_lines() raises because the connection broke (ChunkedEncodingError,
\* ConnectionError: both RequestException); claude_provider.py 229-231,
\* ollama_provider.py 82-83
StreamTransportFailure ==
    /\ stream_pc = "open"
    /\ stream_pc' = "error"
    /\ stream_end' = StreamRaise(TransportError(stream_call.handler), "transport")
    /\ connection' = "closed"
    /\ UNCHANGED <<stream_call, stream_sent, wire, emitted>>
    /\ StreamUnchanged

\* the generator is suspended at its yield: the last line read made it yield
\* a fragment to the caller
SuspendedAtYield ==
    /\ stream_pc = "open"
    /\ Len(wire) >= 1
    /\ LineStep(stream_call.handler, wire[Len(wire)]) = "emit"

\* the caller stops consuming after a fragment and closes the generator (or
\* lets go of it): GeneratorExit is raised at the yield; it is no Exception, so
\* neither `except requests.exceptions.RequestException` (claude_provider.py
\* 229) nor `except Exception` (ollama_provider.py 82) catches it, and the frame
\* is dropped with the response in it
StreamCancel ==
    /\ SuspendedAtYield
    /\ stream_pc' = "cancelled"
    /\ stream_end' = StreamClosed
    /\ connection' \in DroppedResponse
    /\ UNCHANGED <<stream_call, stream_sent, wire, emitted>>
    /\ StreamUnchanged

\* the caller is done with the generator (it ended, raised or was closed) and
\* drops it; the next streaming call starts from scratch
StreamDrop ==
    /\ stream_pc \in {"done", "error", "cancelled"}
    /\ connection' = "none"
    /\ stream_pc' = "idle"
    /\ stream_call' = NoStreamCall
    /\ stream_sent' = <<>>
    /\ wire' = <<>>
    /\ emitted' = <<>>
    /\ stream_end' = NoStreamEnd
    /\ StreamUnchanged

StreamInit == ConfigInit /\ SyncIdle /\ StreamIdle /\ SingletonIdle /\ SessionIdle /\ ChatIdle /\ OtherIdle

StreamNext ==
    \/ \E u \in BOOLEAN, p \in ProviderNames, sp \in SystemPrompts :
          ServiceGenerateStream(u, p, sp)
    \/ \E o \in StreamOutcomes : ClaudeStreamOpen(o)
    \/ \E o \in StreamOutcomes : OllamaStreamOpen(o)
    \/ \E l \in ClaudeLines \cup OllamaLines : StreamLine(l)
    \/ StreamEndOfBody
    \/ StreamTransportFailure
    \/ StreamCancel
    \/ StreamDrop

\* generate_stream called by any caller but the stream_chat route
StreamOnlyNext == StreamNext /\ UNCHANGED chatVars

SpecStream == StreamInit /\ [][StreamOnlyNext]_vars

----------------------------------------------------------------------------
(* stream_chat (app/routes/chat_routes.py 65-123): the generator generate() that
   produces the response body, run over the gateway's generate_stream *)

\* the lines of the body: json.dumps of {"type": ...} with its "content" or
\* "error" entry
StartEvent == [type |-> "start", content |-> <<>>, error |-> ""]
ChunkEvent(t) == [type |-> "chunk", content |-> t, error |-> ""]
DoneEvent == [type |-> "done", content |-> <<>>, error |-> ""]
ErrorEvent(e) == [type |-> "error", content |-> <<>>, error |-> e]

\* lines 111-116: `if system_prompt:` passes it on, otherwise the call is made
\* without it and the parameter takes its default None
RouteSystemArg(system_prompt) ==
    IF system_prompt # "None" /\ system_prompt # "" THEN system_prompt ELSE "None"

\* the chunk events of the fragments from..to of a provider stream
ChunkEvents(fs, from, to) == [i \in 1..(to - from + 1) |-> ChunkEvent(fs[from + i - 1])]

\* a generator that yields "done" in any case, after the error event too
ChatTerminal_DoneAlways(spc, end) ==
    CASE spc = "done" -> <<DoneEvent>>
      [] spc = "error" -> <<ErrorEvent(end.err), DoneEvent>>
      [] OTHER -> <<>>

\* line 119 after the for loop ended, line 121 in `except Exception`
ChatTerminal(spc, end) ==
    CASE spc = "done" -> <<DoneEvent>>
      [] spc = "error" -> <<ErrorEvent(end.err)>>
      [] OTHER -> <<>>

\* lines 66-108: the request is parsed (system_prompt is None, empty or a text),
\* the response is returned and the first next() of generate() yields "start"
ChatRequest(provider, system_prompt) ==
    /\ chat_pc = "idle"
    /\ stream_pc = "idle"
    /\ chat_pc' = "started"
    /\ chat_req' = [provider |-> provider, system_prompt |-> system_prompt]
    /\ events' = <<StartEvent>>
    /\ UNCHANGED <<report_chunk, report_i>>
    /\ UNCHANGED <<syncVars, streamVars, singletonVars, sessionVars, otherVars>>

\* what generate() does with one step of the provider's generator: a chunk
\* event for each fragment it yielded (line 113, 116), "done" when it ended
\* (line 119), "error" when it raised (lines 120-121)
ChatRelay ==
    /\ events' = events \o ChunkEvents(emitted', Len(emitted) + 1, Len(emitted'))
                        \o ChatTerminal(stream_pc', stream_end')
    /\ chat_pc' = IF stream_pc' \in {"done", "error"} THEN "finished" ELSE "streaming"
    /\ UNCHANGED <<chat_req, report_chunk, report_i>>

\* lines 111-116: ai_service.generate_stream(final_prompt, provider[, system_prompt])
\* on the instance get_ai_service() returned, in the try block
ChatCall ==
    /\ chat_pc = "started"
    /\ ServiceGenerateStream(FALSE, chat_req.provider, RouteSystemArg(chat_req.system_prompt))
    /\ ChatRelay

\* one step A of the provider's generator, made by the for loop of generate()
ChatStep(A) ==
    /\ chat_pc = "streaming"
    /\ A
    /\ ChatRelay

\* the body is complete and the request is over
ChatDrop ==
    /\ chat_pc = "finished"
    /\ StreamDrop
    /\ chat_pc' = "idle"
    /\ chat_req' = NoChatReq
    /\ events' = <<>>
    /\ UNCHANGED <<report_chunk, report_i>>

ChatInit == ConfigInit /\ SyncIdle /\ StreamIdle /\ SingletonIdle /\ SessionIdle /\ ChatIdle /\ OtherIdle

\* the gateway of the route is get_ai_service(): it holds a ClaudeProvider only
ChatNext ==
    \/ \E p \in ProviderNames, sp \in SystemPrompts : ChatRequest(p, sp)
    \/ ChatCall
    \/ \E o \in StreamOutcomes : ChatStep(ClaudeStreamOpen(o))
    \/ \E l \in ClaudeLines : ChatStep(StreamLine(l))
    \/ ChatStep(StreamEndOfBody)
    \/ ChatStep(StreamTransportFailure)
    \/ ChatDrop

SpecChat == ChatInit /\ [][ChatNext]_vars

----------------------------------------------------------------------------
(* stream_academic_report (app/routes/generation_routes.py 244-354): the
   generator generate() that cuts the fragments of the Ollama stream into
   slices of chunk_size characters *)

\* chunk_size = 30
ReportChunkSize == 30

\* a fragment of n characters, each one told apart by its position
LongText(n) == [k \in 1..n |-> k]

\* lengths of the fragments: none, one character, one full slice, one more, two
\* full slices and one more
ReportLengths == {0, 1, ReportChunkSize, ReportChunkSize + 1, 2 * ReportChunkSize + 1}

\* the lines of the Ollama stream of a report
ReportLines ==
    {Line(k, <<>>, FALSE) : k \in {"empty", "malformed"}}
    \cup {Line("response", LongText(n), FALSE) : n \in ReportLengths}
    \cup {Line("response", LongText(1), TRUE)}

TextChunkEvent(t) == [type |-> "text_chunk", content |-> t, error |-> ""]

\* a slice that runs to the end of the fragment
ReportSlice_ToEnd(chunk, i) == SubSeq(chunk, i + 1, Len(chunk))

\* chunk[i:i + chunk_size]
ReportSlice(chunk, i) ==
    SubSeq(chunk, i + 1, IF i + ReportChunkSize < Len(chunk)
                         THEN i + ReportChunkSize ELSE Len(chunk))

\* line 345 after the outer for loop ended, line 352 in `except Exception`
ReportTerminal(spc, end) ==
    CASE spc = "done" -> <<DoneEvent>>
      [] spc = "error" -> <<ErrorEvent(end.err)>>
      [] OTHER -> <<>>

\* lines 253-333: the response is returned and the first next() of generate()
\* takes the gateway of get_ai_service(use_ollama=True), which holds an
\* OllamaProvider, builds the prompt and calls
\* ai_service.ollama.generate_stream(prompt); nothing of the provider's
\* generator has run yet
ReportRequest ==
    /\ chat_pc = "idle"
    /\ stream_pc = "idle"
    /\ chat_pc' = "streaming"
    /\ events' = <<>>
    /\ report_chunk' = <<>>
    /\ report_i' = 0
    /\ stream_call' = [use_ollama |-> TRUE, provider |-> "ollama",
                       system_prompt |-> "None", handler |-> "ollama"]
    /\ stream_pc' = "created"
    /\ UNCHANGED <<chat_req, stream_sent, wire, emitted, stream_end, connection>>
    /\ StreamUnchanged

\* line 333, `for chunk in ...`: the inner loop is over (or was not entered
\* yet) and the provider's generator is resumed; a fragment it yields becomes
\* chunk and the inner loop starts at i = 0, its end leads to "done" (line 345),
\* an exception to "error" (lines 348-352)
ReportRelay ==
    /\ report_chunk' = IF Len(emitted') > Len(emitted)
                       THEN emitted'[Len(emitted')] ELSE <<>>
    /\ report_i' = 0
    /\ events' = events \o ReportTerminal(stream_pc', stream_end')
    /\ chat_pc' = IF stream_pc' \in {"done", "error"} THEN "finished" ELSE "streaming"
    /\ UNCHANGED chat_req

ReportStep(A) ==
    /\ chat_pc = "streaming"
    /\ report_i >= Len(report_chunk)
    /\ A
    /\ ReportRelay

\* lines 335-342: one iteration of `for i in range(0, len(chunk), chunk_size)`
ReportYield ==
    /\ chat_pc = "streaming"
    /\ report_i < Len(report_chunk)
    /\ events' = Append(events, TextChunkEvent(ReportSlice(report_chunk, report_i)))
    /\ report_i' = report_i + ReportChunkSize
    /\ UNCHANGED <<chat_pc, chat_req, report_chunk>>
    /\ UNCHANGED <<syncVars, streamVars, singletonVars, sessionVars, otherVars>>

\* the body is complete and the request is over
ReportDrop ==
    /\ chat_pc = "finished"
    /\ StreamDrop
    /\ chat_pc' = "idle"
    /\ events' = <<>>
    /\ report_chunk' = <<>>
    /\ report_i' = 0
    /\ UNCHANGED chat_req

ReportInit == ConfigInit /\ SyncIdle /\ StreamIdle /\ SingletonIdle /\ SessionIdle /\ ChatIdle /\ OtherIdle

ReportNext ==
    \/ ReportRequest
    \/ \E o \in StreamOutcomes : ReportStep(OllamaStreamOpen(o))
    \/ \E l \in ReportLines : ReportStep(StreamLineRead(l))
    \/ ReportStep(StreamEndOfBody)
    \/ ReportStep(StreamTransportFailure)
    \/ ReportYield
    \/ ReportDrop

SpecReport == ReportInit /\ [][ReportNext]_vars

----------------------------------------------------------------------------
(* get_ai_service (ai_service.py 77-101) called by concurrent request threads *)

\* the global the call reads and writes: _ollama_service or _ai_service
GlobalOf(flag) == IF flag THEN ollama_service ELSE ai_service

SingletonUnchanged ==
    UNCHANGED <<syncVars, streamVars, sessionVars, chatVars, otherVars>>

\* `if use_ollama:` and `if _ollama_service is None:` / `if _ai_service is None:`
\* (lines 94-95, 98-99): the thread reads the global and takes its branch
GetCheck(t, flag) ==
    /\ th_pc[t] = "idle"
    /\ Len(returned[t]) < MaxGets
    /\ th_flag' = [th_flag EXCEPT ![t] = flag]
    /\ th_pc' = [th_pc EXCEPT ![t] = IF GlobalOf(flag) = 0 THEN "construct" ELSE "return"]
    /\ UNCHANGED <<ai_service, ollama_service, instances, th_new, returned>>
    /\ SingletonUnchanged

\* AIService(use_ollama=...) (lines 96, 100, and __init__ 13-32): a new instance
\* with its one provider
GetConstruct(t) ==
    /\ th_pc[t] = "construct"
    /\ instances' = Append(instances, th_flag[t])
    /\ th_new' = [th_new EXCEPT ![t] = Len(instances) + 1]
    /\ th_pc' = [th_pc EXCEPT ![t] = "assign"]
    /\ UNCHANGED <<ai_service, ollama_service, th_flag, returned>>
    /\ SingletonUnchanged

\* the store of the new instance into the global (lines 96, 100)
GetAssign(t) ==
    /\ th_pc[t] = "assign"
    /\ IF th_flag[t]
       THEN ollama_service' = th_new[t] /\ UNCHANGED ai_service
       ELSE ai_service' = th_new[t] /\ UNCHANGED ollama_service
    /\ th_pc' = [th_pc EXCEPT ![t] = "return"]
    /\ UNCHANGED <<instances, th_flag, th_new, returned>>
    /\ SingletonUnchanged

\* `return _ollama_service` / `return _ai_service` (lines 97, 101): the global
\* is read again
GetReturn(t) ==
    /\ th_pc[t] = "return"
    /\ returned' = [returned EXCEPT
            ![t] = Append(@, [flag |-> th_flag[t], instance |-> GlobalOf(th_flag[t])])]
    /\ th_pc' = [th_pc EXCEPT ![t] = "idle"]
    /\ th_new' = [th_new EXCEPT ![t] = 0]
    /\ UNCHANGED <<ai_service, ollama_service, instances, th_flag>>
    /\ SingletonUnchanged

SingletonInit == ConfigInit /\ SyncIdle /\ StreamIdle /\ SingletonIdle /\ SessionIdle /\ ChatIdle /\ OtherIdle

SingletonNext ==
    \/ \E t \in Threads, flag \in BOOLEAN : GetCheck(t, flag)
    \/ \E t \in Threads : GetConstruct(t)
    \/ \E t \in Threads : GetAssign(t)
    \/ \E t \in Threads : GetReturn(t)

SpecSingleton == SingletonInit /\ [][SingletonNext]_vars

----------------------------------------------------------------------------
(* ClaudeProvider.session (claude_provider.py 55-66) used by concurrent threads
   that call generate, generate_stream or check_status on one instance *)

SessionOps == {"generate", "generate_stream", "check_status"}

SessionUnchanged ==
    UNCHANGED <<syncVars, streamVars, singletonVars, chatVars, otherVars>>

\* `self.session` in `self.session.post(...)` (lines 90, 170, 245) enters the
\* property, and `if self._session is None:` (line 58) takes its branch
SessionCheck(t, op) ==
    /\ ss_pc[t] = "idle"
    /\ Len(posted[t]) < MaxPosts
    /\ ss_op' = [ss_op EXCEPT ![t] = op]
    /\ ss_pc' = [ss_pc EXCEPT ![t] = IF self_session = 0 THEN "create" ELSE "return"]
    /\ UNCHANGED <<self_session, sessions, ss_got, posted>>
    /\ SessionUnchanged

\* `self._session = requests.Session()` (line 59)
SessionCreate(t) ==
    /\ ss_pc[t] = "create"
    /\ sessions' = Append(sessions, [headers |-> FALSE])
    /\ self_session' = Len(sessions) + 1
    /\ ss_pc' = [ss_pc EXCEPT ![t] = "headers"]
    /\ UNCHANGED <<ss_op, ss_got, posted>>
    /\ SessionUnchanged

\* `self._session.headers.update({...})` (lines 61-65): the attribute is read
\* again, the headers go to the session it holds now
SessionHeaders(t) ==
    /\ ss_pc[t] = "headers"
    /\ sessions' = [sessions EXCEPT ![self_session] = [headers |-> TRUE]]
    /\ ss_pc' = [ss_pc EXCEPT ![t] = "return"]
    /\ UNCHANGED <<self_session, ss_op, ss_got, posted>>
    /\ SessionUnchanged

\* `return self._session` (line 66)
SessionReturn(t) ==
    /\ ss_pc[t] = "return"
    /\ ss_got' = [ss_got EXCEPT ![t] = self_session]
    /\ ss_pc' = [ss_pc EXCEPT ![t] = "post"]
    /\ UNCHANGED <<self_session, sessions, ss_op, posted>>
    /\ SessionUnchanged

\* `.post(...)` on the session the property returned (lines 90, 170, 245)
SessionPost(t) ==
    /\ ss_pc[t] = "post"
    /\ posted' = [posted EXCEPT
            ![t] = Append(@, [op |-> ss_op[t], session |-> ss_got[t],
                              headers |-> sessions[ss_got[t]].headers])]
    /\ ss_pc' = [ss_pc EXCEPT ![t] = "idle"]
    /\ ss_got' = [ss_got EXCEPT ![t] = 0]
    /\ UNCHANGED <<self_session, sessions, ss_op>>
    /\ SessionUnchanged

SessionInit == ConfigInit /\ SyncIdle /\ StreamIdle /\ SingletonIdle /\ SessionIdle /\ ChatIdle /\ OtherIdle

SessionNext ==
    \/ \E t \in Threads, op \in SessionOps : SessionCheck(t, op)
    \/ \E t \in Threads : SessionCreate(t)
    \/ \E t \in Threads : SessionHeaders(t)
    \/ \E t \in Threads : SessionReturn(t)
    \/ \E t \in Threads : SessionPost(t)

SpecSession == SessionInit /\ [][SessionNext]_vars

----------------------------------------------------------------------------
(* The request bodies of ClaudeProvider and OllamaProvider: generate
   (claude_provider.py 76-84, ollama_provider.py 36-40) and generate_stream
   (claude_provider.py 158-167, ollama_provider.py 63-70) *)

Prompts == {"", "hello", "hi there"}

\* a dict with string keys, built entry by entry
Entry(k, v) == k :> v

\* claude_provider.py 76-84; the key of the message is " role", with a
\* leading space
ClaudeGeneratePayload(prompt) ==
    [provider |-> "claude", prompt |-> prompt,
     body |-> Entry("model", "self.model") @@ Entry("max_tokens", "8192")
              @@ Entry("temperature", "0.3")
              @@ Entry("system", "EXPERT_SYSTEM_PROMPT"),
     messages |-> <<Entry(" role", "user") @@ Entry("content", prompt)>>]

\* claude_provider.py 158-167
ClaudeStreamPayload(prompt, system_prompt) ==
    [provider |-> "claude", prompt |-> prompt,
     body |-> Entry("model", "self.model") @@ Entry("max_tokens", "8192")
              @@ Entry("temperature", "0.3")
              @@ Entry("system", ClaudeSystemSent(system_prompt))
              @@ Entry("stream", "True"),
     messages |-> <<Entry("role", "user") @@ Entry("content", prompt)>>]

\* ollama_provider.py 36-40
OllamaGeneratePayload(prompt) ==
    [provider |-> "ollama", prompt |-> prompt,
     body |-> Entry("model", "self.model") @@ Entry("prompt", prompt)
              @@ Entry("stream", "False"),
     messages |-> <<>>]

\* ollama_provider.py 63-70
OllamaStreamPayload(prompt, system_prompt) ==
    [provider |-> "ollama", prompt |-> prompt,
     body |-> IF OllamaSystemSent(system_prompt) = "absent"
              THEN Entry("model", "self.model") @@ Entry("prompt", prompt)
                   @@ Entry("stream", "True")
              ELSE Entry("model", "self.model") @@ Entry("prompt", prompt)
                   @@ Entry("stream", "True")
                   @@ Entry("system", OllamaSystemSent(system_prompt)),
     messages |-> <<>>]

PayloadUnchanged ==
    UNCHANGED <<syncVars, streamVars, singletonVars, sessionVars, chatVars,
                contextVars, parseVars>>

\* generate(prompt) of a provider builds its request body
BuildGenerate(provider, prompt) ==
    /\ built' = [built EXCEPT !.generate =
                    IF provider = "claude" THEN ClaudeGeneratePayload(prompt)
                    ELSE OllamaGeneratePayload(prompt)]
    /\ PayloadUnchanged

\* generate_stream(prompt, system_prompt) of a provider builds its request body
BuildStream(provider, prompt, system_prompt) ==
    /\ built' = [built EXCEPT !.stream =
                    IF provider = "claude" THEN ClaudeStreamPayload(prompt, system_prompt)
                    ELSE OllamaStreamPayload(prompt, system_prompt)]
    /\ PayloadUnchanged

PayloadInit ==
    ConfigInit /\ SyncIdle /\ StreamIdle /\ SingletonIdle /\ SessionIdle /\ ChatIdle /\ OtherIdle

PayloadNext ==
    \/ \E p \in {"claude", "ollama"}, prompt \in Prompts : BuildGenerate(p, prompt)
    \/ \E p \in {"claude", "ollama"}, prompt \in Prompts, sp \in SystemPrompts :
          BuildStream(p, prompt, sp)

SpecPayload == PayloadInit /\ [][PayloadNext]_vars

----------------------------------------------------------------------------
(* Claims about the request bodies, checked under SpecPayload *)

\* a dict without the entries of the keys ks
Without(f, ks) == [k \in (DOMAIN f) \ ks |-> f[k]]

\* both bodies were built by one provider for one prompt
BothBuilt ==
    /\ built.generate.provider # "none"
    /\ built.generate.provider = built.stream.provider
    /\ built.generate.prompt = built.stream.prompt

\* C24: for one prompt the request body of a provider's generate_stream equals
\* that of its generate but for the entries "stream" and "system", and for
\* ClaudeProvider the message list of both is the single message
\* {"role": "user", "content": prompt}.
C24_StreamBodyEqualsSyncBody ==
    BothBuilt =>
        /\ Without(built.stream.body, {"stream", "system"})
               = Without(built.generate.body, {"stream", "system"})
        /\ built.stream.messages = built.generate.messages
        /\ built.generate.provider = "claude" =>
              built.generate.messages =
                  <<Entry("role", "user") @@ Entry("content", built.generate.prompt)>>

----------------------------------------------------------------------------
(* SessionService.update_context (app/services/session_service.py 35-49) *)

\* the index a slice s[n:] starts at, counted from 0, for a sequence of length
\* len: a negative n counts from the end, and both are clamped to 0..len
SliceStart(n, len) ==
    IF n < 0
    THEN (IF len + n > 0 THEN len + n ELSE 0)
    ELSE (IF n < len THEN n ELSE len)

\* s[n:]
SliceFrom(s, n) == SubSeq(s, SliceStart(n, Len(s)) + 1, Len(s))

\* lines 47-49: if len(context) > max_chars: context = context[-max_chars:]
TrimContext(c, m) == IF Len(c) > m THEN SliceFrom(c, 0 - m) ELSE c

ContextUnchanged ==
    UNCHANGED <<syncVars, streamVars, singletonVars, sessionVars, chatVars,
                payloadVars, parseVars>>

\* update_context(session_id, additional_context, max_chars)
UpdateContext(t) ==
    /\ updates < MaxUpdates
    /\ updates' = updates + 1
    /\ added' = added \o t
    /\ context' = TrimContext(context \o t, max_chars)
    /\ UNCHANGED max_chars
    /\ ContextUnchanged

\* a new session, whose callers pass one max_chars >= 0
ContextInit ==
    /\ ConfigInit /\ SyncIdle /\ StreamIdle /\ SingletonIdle /\ SessionIdle /\ ChatIdle
    /\ PayloadIdle /\ ParseIdle
    /\ ContextEmpty
    /\ max_chars \in 0..MaxChars

ContextNext == \E t \in Texts : UpdateContext(t)

SpecContext == ContextInit /\ [][ContextNext]_vars

----------------------------------------------------------------------------
(* Claims about the session context, checked under SpecContext *)

\* the last n characters of s (all of s when it has fewer)
LastChars(s, n) == IF n >= Len(s) THEN s ELSE SubSeq(s, Len(s) - n + 1, Len(s))

\* C26: for every max_chars >= 0, after each update_context call the context is
\* at most max_chars long and is the last min(max_chars, total length)
\* characters of all texts added so far, in call order.
C26_ContextIsSuffixOfAdded ==
    /\ Len(context) <= max_chars
    /\ context = LastChars(added, max_chars)

----------------------------------------------------------------------------
(* stream_chat (app/routes/chat_routes.py 68-101): the prompt is taken apart
   into system_prompt and user_request. A prompt is a sequence of characters
   in which the two markers count as one character each. *)

SystemMarker == "[SYSTEM:"
UserMarker == "[USER REQUEST:"

\* the characters of s and u: a letter, whitespace, a closing bracket
PromptChars == {"a", " ", "]"}

PromptTexts == UNION {[1..n -> PromptChars] : n \in 0..MaxTextLen}

\* the prompt the frontend composes: "[SYSTEM: {s}]\n\n[USER REQUEST: {u}]"
ComposedPrompt(s, u) ==
    <<SystemMarker, " ">> \o s \o <<"]", " ", UserMarker, " ">> \o u \o <<"]">>

\* str.replace(c, ''): every occurrence of c is removed
RECURSIVE Remove(_, _)
Remove(p, c) ==
    IF p = <<>> THEN <<>>
    ELSE IF Head(p) = c THEN Remove(Tail(p), c)
         ELSE <<Head(p)>> \o Remove(Tail(p), c)

\* str.split(c): the parts between the occurrences of c
RECURSIVE Split(_, _)
Split(p, c) ==
    IF \E i \in 1..Len(p) : p[i] = c
    THEN LET i == CHOOSE j \in 1..Len(p) :
                      p[j] = c /\ \A k \in 1..(j - 1) : p[k] # c
         IN  <<SubSeq(p, 1, i - 1)>> \o Split(SubSeq(p, i + 1, Len(p)), c)
    ELSE <<p>>

\* lines 77-91: passed says whether generate() hands system_prompt to the
\* gateway (lines 111-116, `if system_prompt:`); user_request heads final_prompt
\* (line 94)
ParsePrompt(prompt) ==
    LET parts == Split(prompt, UserMarker)
    IN  IF prompt # <<>> /\ Head(prompt) = SystemMarker /\ Len(parts) = 2
        THEN LET system_part == strip(Remove(Remove(parts[1], SystemMarker), "]"))
                 user_part == strip(Remove(parts[2], "]"))
             IN  [passed |-> system_part # <<>>,
                  system_prompt |-> system_part,
                  user_request |-> user_part]
        ELSE [passed |-> FALSE, system_prompt |-> <<>>, user_request |-> prompt]

ParseUnchanged ==
    UNCHANGED <<syncVars, streamVars, singletonVars, sessionVars, chatVars,
                payloadVars, contextVars>>

\* a request whose prompt the frontend composed from s and u
StreamChatComposed(s, u) ==
    /\ parse_in = NoParseIn
    /\ parse_in' = [form |-> TRUE, s |-> s, u |-> u, prompt |-> ComposedPrompt(s, u)]
    /\ parse_out' = ParsePrompt(ComposedPrompt(s, u))
    /\ ParseUnchanged

\* a request with any other prompt; an empty prompt is answered with 400
\* before the parsing (lines 72-73)
StreamChatPlain(p) ==
    /\ parse_in = NoParseIn
    /\ p # <<>>
    /\ parse_in' = [form |-> FALSE, s |-> <<>>, u |-> <<>>, prompt |-> p]
    /\ parse_out' = ParsePrompt(p)
    /\ ParseUnchanged

\* the request is over
StreamChatOver ==
    /\ parse_in # NoParseIn
    /\ parse_in' = NoParseIn
    /\ parse_out' = NoParseOut
    /\ ParseUnchanged

ParseInit ==
    ConfigInit /\ SyncIdle /\ StreamIdle /\ SingletonIdle /\ SessionIdle /\ ChatIdle /\ OtherIdle

ParseNext ==
    \/ \E s \in PromptTexts, u \in PromptTexts : StreamChatComposed(s, u)
    \/ \E p \in PromptTexts : StreamChatPlain(p)
    \/ \E p \in PromptTexts : StreamChatPlain(<<SystemMarker>> \o p)
    \/ StreamChatOver

SpecParse == ParseInit /\ [][ParseNext]_vars

----------------------------------------------------------------------------
(* Claims about the parsing of the prompt, checked under SpecParse *)

\* C30: for a prompt "[SYSTEM: s]\n\n[USER REQUEST: u]" the system instruction
\* passed to the gateway is s and the user request is u, both trimmed, for
\* every s and u, also with "]" in them (an s that is empty after trimming
\* passes no instruction); any other prompt is the user request as a whole,
\* and no system instruction is passed.
C30_PromptParsedIntoParts ==
    /\ parse_in.form =>
          /\ parse_out.user_request = strip(parse_in.u)
          /\ strip(parse_in.s) # <<>> =>
                (parse_out.passed /\ parse_out.system_prompt = strip(parse_in.s))
    /\ (~parse_in.form /\ parse_in.prompt # <<>>) =>
          /\ ~parse_out.passed
          /\ parse_out.user_request = parse_in.prompt

----------------------------------------------------------------------------
(* Claims about get_ai_service, checked under SpecSingleton *)

InstancesOf(flag) == {i \in 1..Len(instances) : instances[i] = flag}

\* C4: with concurrent first calls of get_ai_service for one use_ollama flag,
\* exactly one AIService is constructed for that flag and every caller with
\* that flag gets that same instance.
C4_OneInstancePerFlag ==
    \A flag \in BOOLEAN :
        /\ Cardinality(InstancesOf(flag)) <= 1
        /\ \A t, u \in Threads :
              \A i \in 1..Len(returned[t]), j \in 1..Len(returned[u]) :
                  (returned[t][i].flag = flag /\ returned[u][j].flag = flag)
                      => returned[t][i].instance = returned[u][j].instance

----------------------------------------------------------------------------
(* Claims about ClaudeProvider.session, checked under SpecSession *)

\* C19: a ClaudeProvider instance creates at most one HTTP session, also when
\* several threads make their first call concurrently, and every request of
\* the instance goes through that one session.
C19_OneSessionPerProvider ==
    /\ Len(sessions) <= 1
    /\ \A t, u \in Threads :
          \A i \in 1..Len(posted[t]), j \in 1..Len(posted[u]) :
              posted[t][i].session = posted[u][j].session

----------------------------------------------------------------------------
(* Claims about streaming calls, checked under SpecStream *)

RECURSIVE Concat(_)
Concat(ss) == IF ss = <<>> THEN <<>> ELSE Head(ss) \o Concat(Tail(ss))

RECURSIVE TextsOf(_)
TextsOf(w) ==
    IF w = <<>> THEN <<>>
    ELSE IF Head(w).text # <<>> THEN <<Head(w).text>> \o TextsOf(Tail(w))
         ELSE TextsOf(Tail(w))

RECURSIVE NonEmpty(_)
NonEmpty(fs) ==
    IF fs = <<>> THEN <<>>
    ELSE IF Head(fs) # <<>> THEN <<Head(fs)>> \o NonEmpty(Tail(fs))
         ELSE NonEmpty(Tail(fs))

\* the upstream response text: the texts of the frames on the wire, in order
WireText == Concat(TextsOf(wire))

\* what the synchronous generate of the provider returns for a 200 response
\* whose body carries text t
SyncGenerateText(handler, t) ==
    IF handler = "claude"
    THEN ClaudeParse(Http(HTTP_OK, "text", t)).text
    ELSE OllamaGenerateRun(Http(HTTP_OK, "text", t)).result.text

\* C5: when a stream has completed, the concatenation of its fragments equals
\* what the synchronous generate of the same provider returns for the same
\* upstream text.
C5_StreamEqualsSync ==
    stream_pc = "done" =>
        Concat(emitted) = SyncGenerateText(stream_call.handler, WireText)

IsCompletionLine(l) == l.kind \in {"done_marker", "message_stop"} \/ l.done

CompletionSeen == \E i \in 1..Len(wire) : IsCompletionLine(wire[i])

\* the transport closed (cleanly or not) before a completion line was read
ClosedBeforeCompletion ==
    /\ stream_end.cause \in {"eof", "transport"}
    /\ ~CompletionSeen

\* C6: when the transport closes before the completion signal, the fragments
\* emitted until then stay with the caller and the stream ends with a stream
\* error, not with normal completion.
C6_EarlyCloseIsError ==
    ClosedBeforeCompletion =>
        /\ stream_pc = "error"
        /\ stream_end.how = "raise"
        /\ NonEmpty(emitted) = TextsOf(wire)

\* C7: at every point of a streaming call the fragments emitted so far are
\* the texts of the text-carrying frames received so far, in wire order (an
\* empty fragment carries no text and is not counted): nothing twice, nothing
\* reordered, nothing withheld.
C7_EmittedFollowsWire ==
    NonEmpty(emitted) = TextsOf(wire)

C7_Witness ==
    /\ stream_pc = "open"
    /\ Len(wire) = 3
    /\ Len(emitted) = 2
    /\ emitted[1] # emitted[2]
    /\ emitted[1] # <<>>
    /\ emitted[2] # <<>>

\* C14: a streaming call is never retried: it sends at most one request, and
\* exactly one once it got as far as its POST, whatever that request came back
\* with (error status, network failure, transport failure while the body is
\* read); a failure is the terminal error of the call, and no backoff delay
\* is slept.
C14_StreamNeverRetried ==
    /\ Len(stream_sent) <= 1
    /\ sleeps = <<>>
    /\ (stream_pc = "open" \/ stream_end.cause \in {"open", "line", "signal", "eof", "transport"})
        => Len(stream_sent) = 1
    /\ stream_end.how = "raise" => stream_pc = "error"
    /\ stream_pc = "error" => stream_end.how = "raise"

C14_Witness ==
    /\ stream_pc = "error"
    /\ stream_end.cause = "transport"
    /\ Len(stream_sent) = 1
    /\ emitted # <<>>
    /\ sleeps = <<>>

\* C15: in both streaming providers a line whose payload is malformed JSON is
\* skipped: it never ends the stream with an error.
C15_MalformedLineSkipped ==
    (/\ Len(wire) >= 1
     /\ wire[Len(wire)].kind = "malformed")
    => ~(stream_pc = "error" /\ stream_end.cause = "line")

\* the "system" entries of the requests the call has sent
SentSystems == {stream_sent[i].system : i \in 1..Len(stream_sent)}

C17_CancelClosesConnection ==
    stream_pc = "cancelled" => connection = "closed"

\* C22: once the completion signal of a stream was received (Claude: [DONE] or
\* message_stop; Ollama: a frame with done = true) the stream is done: the
\* completion frame is the last line read, and it emitted no fragment.
C22_CompletionStopsStream ==
    \A i \in 1..Len(wire) :
        IsCompletionLine(wire[i]) =>
            /\ i = Len(wire)
            /\ stream_pc = "done"
            /\ LineStep(stream_call.handler, wire[i]) # "emit"

\* C29: in ClaudeProvider.generate_stream a data line whose payload is valid
\* JSON but neither a text delta nor a completion event (a JSON value that is
\* no object, an object without "type", a content_block_delta whose delta is
\* no object) is skipped: it does not end the stream with an error.
C29_NonDeltaJsonSkipped ==
    (/\ stream_call.handler = "claude"
     /\ Len(wire) >= 1
     /\ wire[Len(wire)].kind \in {"json_nondict", "no_type", "delta_nonobject"})
    => ~(stream_pc = "error" /\ stream_end.cause = "line")

----------------------------------------------------------------------------
(* Claims about the stream_chat route, checked under SpecChat *)

\* C20: the body of a /api/stream_chat response is one "start" event, then one
\* "chunk" event per fragment of the provider stream in its order, then, once
\* the provider stream is over, exactly one terminal event: "done" when it
\* ended normally, "error" when it raised. Chunks before an error stay, nothing
\* follows the terminal event, and "done" and "error" never both occur.
C20_StartChunksTerminal ==
    chat_pc # "idle" =>
        LET n == Len(emitted)
            over == stream_pc \in {"done", "error"}
        IN  /\ events[1] = StartEvent
            /\ Len(events) = 1 + n + (IF over THEN 1 ELSE 0)
            /\ \A i \in 1..n : events[1 + i] = ChunkEvent(emitted[i])
            /\ stream_end.how = "return" => events[Len(events)] = DoneEvent
            /\ stream_end.how = "raise" => events[Len(events)] = ErrorEvent(stream_end.err)
            /\ ~over => events[Len(events)].type \in {"start", "chunk"}
            /\ over <=> chat_pc = "finished"

C20_Witness ==
    /\ chat_pc = "finished"
    /\ Len(events) = 4
    /\ events[1].type = "start"
    /\ events[2].type = "chunk"
    /\ events[3].type = "chunk"
    /\ events[2].content # events[3].content
    /\ events[4].type = "error"
    /\ stream_end.cause = "transport"

----------------------------------------------------------------------------
(* Claims about stream_academic_report, checked under SpecReport *)

\* the contents of the text_chunk events, in order
RECURSIVE TextChunkContents(_)
TextChunkContents(es) ==
    IF es = <<>> THEN <<>>
    ELSE IF Head(es).type = "text_chunk"
         THEN <<Head(es).content>> \o TextChunkContents(Tail(es))
         ELSE TextChunkContents(Tail(es))

EventsOfType(ty) == {k \in 1..Len(events) : events[k].type = ty}

\* C27: the contents of the text_chunk events, one after the other, are the
\* fragments the Ollama stream yielded, one after the other (less the slices of
\* the last fragment that are still to be sent); every text_chunk carries 1 to
\* 30 characters; a stream whose provider returned ends with one "done" event
\* and has no "error", one whose provider raised ends with one "error" event
\* and has no "done", and before that there is neither.
C27_ReportChunksAndTerminal ==
    chat_pc # "idle" =>
        /\ Concat(TextChunkContents(events))
              \o SubSeq(report_chunk, report_i + 1, Len(report_chunk))
           = Concat(emitted)
        /\ \A k \in EventsOfType("text_chunk") :
              Len(events[k].content) \in 1..ReportChunkSize
        /\ \A k \in 1..Len(events) : events[k].type \in {"text_chunk", "done", "error"}
        /\ chat_pc = "streaming" =>
              EventsOfType("done") \cup EventsOfType("error") = {}
        /\ (chat_pc = "finished" /\ stream_end.how = "return") =>
              /\ EventsOfType("done") = {Len(events)}
              /\ EventsOfType("error") = {}
        /\ (chat_pc = "finished" /\ stream_end.how = "raise") =>
              /\ EventsOfType("error") = {Len(events)}
              /\ EventsOfType("done") = {}
        /\ chat_pc = "finished" => stream_end.how \in {"return", "raise"}

\* a report whose provider yielded a fragment of 61 characters and then
\* returned: three text_chunk events of 30, 30 and 1 characters, then "done"
C27_Witness ==
    /\ chat_pc = "finished"
    /\ stream_end.how = "return"
    /\ emitted = <<LongText(2 * ReportChunkSize + 1)>>
    /\ Len(events) = 4
    /\ Len(events[1].content) = ReportChunkSize
    /\ Len(events[3].content) = 1
    /\ events[4].type = "done"

====
